---------------------------- MODULE Spec2Model ----------------------------
(***************************************************************************)
(* Model of the student-counselling backend: the student table and its     *)
(* conversation log (app/models/student.py), the conversation endpoint     *)
(* (app/routers/student.py), and the Groq service (program filter, prompt  *)
(* assembly, completion call, JSON extraction: app/services/groq_service). *)
(*                                                                         *)
(* Text is modelled as a sequence of one-character strings, so that        *)
(* lower(), substring tests, find/rfind, slicing and split are computed.   *)
(* The hosted store and the completion endpoint are external: each call to *)
(* them is one atomic step with a nondeterministic answer.  Requests are   *)
(* served by server processes that share the hosted store, so the store    *)
(* calls of different requests interleave freely.  Timestamps are left     *)
(* out of a turn: no modelled operation reads them.                        *)
(***************************************************************************)
EXTENDS Integers, Sequences, FiniteSets, TLC

(***************************************************************************)
(* Bounds of the model.                                                    *)
(***************************************************************************)
NumReqs == 2
MaxFetched == 2
BulkFactor == 51
MaxText == 6
NumProfiles == 2
MaxPrograms == 3
MaxCached == 6
MaxRuns == 3
LongLog == 11
NumAgentIds == 2

(***************************************************************************)
(* Program constants.                                                      *)
(***************************************************************************)
ProgramCap == 50
HttpOk == 200

Reqs == 1..NumReqs
StudentIds == {1}
AgentIds == 1..NumAgentIds

(***************************************************************************)
(* Python values.  None is a value no text equals.                         *)
(***************************************************************************)
NoneVal == <<"<None>">>
IsStr(x) == x # NoneVal

LowerChar(c) ==
    CASE c = "C" -> "c"
      [] c = "D" -> "d"
      [] c = "A" -> "a"
      [] c = "G" -> "g"
      [] OTHER -> c

\* str.lower()
Lower(s) == [i \in DOMAIN s |-> LowerChar(s[i])]

\* `sub in s` for two Python strings
Contains(sub, s) ==
    \E i \in 0..(Len(s) - Len(sub)) : SubSeq(s, i + 1, i + Len(sub)) = sub

\* truthiness of a preferred_location value (None, "" and [] are falsy)
Truthy(v) == v.t # "none" /\ v.v # <<>>

(***************************************************************************)
(* Program filter of GroqService.chat_with_student.  A student record      *)
(* carries preferred_location as [t, v] with t one of "none", "str",       *)
(* "list"; field_of_study and budget_range as a text or None.  A program   *)
(* carries id, location, program_title and fees as [t, v] with t "int" or  *)
(* "str" (the schema allows both).                                         *)
(***************************************************************************)

\* lines 300-313: the requested locations as a list of lower-cased texts
ChatPreferredLocations(pl) ==
    LET asList == IF pl.t = "str" THEN <<pl.v>> ELSE pl.v
    IN  [i \in DOMAIN asList |-> Lower(asList[i])]

InList(x, list) == \E i \in DOMAIN list : list[i] = x

\* mutant: the program's location compared without lower-casing it
ChatLocationMatchCaseSensitive(program, prefs) ==
    IsStr(program.location) /\ InList(program.location, prefs)

\* lines 316-320: the test of the location comprehension
ChatLocationMatch(program, prefs) ==
    IsStr(program.location) /\ InList(Lower(program.location), prefs)

\* mutant: the location stage without its fallback to all programs
LocationStageNoFallback(student, all_programs) ==
    IF Truthy(student.preferred_location)
    THEN LET prefs == ChatPreferredLocations(student.preferred_location)
             Keep(p) == ChatLocationMatch(p, prefs)
         IN  SelectSeq(all_programs, Keep)
    ELSE all_programs

\* lines 295-324
LocationStage(student, all_programs) ==
    IF Truthy(student.preferred_location)
    THEN LET prefs == ChatPreferredLocations(student.preferred_location)
             Keep(p) == ChatLocationMatch(p, prefs)
             kept == SelectSeq(all_programs, Keep)
         IN  IF kept = <<>> THEN all_programs ELSE kept
    ELSE all_programs

\* mutant: the field stage without its fallback on an empty result
FieldStageNoFallback(student, filtered_programs) ==
    IF IsStr(student.field_of_study) /\ student.field_of_study # <<>>
    THEN LET field == Lower(student.field_of_study)
             Keep(p) == IsStr(p.program_title) /\ Contains(field, Lower(p.program_title))
         IN  SelectSeq(filtered_programs, Keep)
    ELSE filtered_programs

\* lines 326-337
FieldStage(student, filtered_programs) ==
    IF IsStr(student.field_of_study) /\ student.field_of_study # <<>>
    THEN LET field == Lower(student.field_of_study)
             Keep(p) == IsStr(p.program_title) /\ Contains(field, Lower(p.program_title))
             kept == SelectSeq(filtered_programs, Keep)
         IN  IF kept # <<>> THEN kept ELSE filtered_programs
    ELSE filtered_programs

\* str.split("-")
RECURSIVE SplitDash(_)
SplitDash(s) ==
    IF \E i \in DOMAIN s : s[i] = "-"
    THEN LET i == CHOOSE k \in DOMAIN s :
                     s[k] = "-" /\ \A j \in 1..(k - 1) : s[j] # "-"
         IN  <<SubSeq(s, 1, i - 1)>> \o SplitDash(SubSeq(s, i + 1, Len(s)))
    ELSE <<s>>

Digits == <<"0", "1", "2", "3", "4", "5", "6", "7", "8", "9">>
IsDigit(c) == \E d \in DOMAIN Digits : Digits[d] = c
DigitVal(c) == (CHOOSE d \in DOMAIN Digits : Digits[d] = c) - 1

\* int(tok) succeeds on a non-empty run of digits, else ValueError
IntOk(tok) == tok # <<>> /\ \A i \in DOMAIN tok : IsDigit(tok[i])

RECURSIVE IntVal(_)
IntVal(tok) ==
    IF tok = <<>> THEN 0
    ELSE 10 * IntVal(SubSeq(tok, 1, Len(tok) - 1)) + DigitVal(tok[Len(tok)])

\* line 348: min_budget, max_budget = map(int, budget_range.split("-"))
ParseBudget(budget_range) ==
    LET parts == SplitDash(budget_range)
    IN  IF Len(parts) = 2 /\ IntOk(parts[1]) /\ IntOk(parts[2])
        THEN [ok |-> TRUE, min |-> IntVal(parts[1]), max |-> IntVal(parts[2])]
        ELSE [ok |-> FALSE, min |-> 0, max |-> 0]

\* mutant: the budget test without its lower bound
BudgetMatchNoLower(program, b) ==
    program.fees.t = "int" /\ program.fees.v <= b.max

\* lines 351-355: the test of the budget comprehension
BudgetMatch(program, b) ==
    program.fees.t = "int" /\ b.min <= program.fees.v /\ program.fees.v <= b.max

\* mutant: the budget stage without its fallback on an empty result
BudgetStageNoFallback(student, filtered_programs) ==
    IF IsStr(student.budget_range)
    THEN LET b == ParseBudget(student.budget_range)
             Keep(p) == BudgetMatch(p, b)
         IN  IF b.ok THEN SelectSeq(filtered_programs, Keep) ELSE filtered_programs
    ELSE filtered_programs

\* lines 339-362
BudgetStage(student, filtered_programs) ==
    IF IsStr(student.budget_range)
    THEN LET b == ParseBudget(student.budget_range)
             Keep(p) == BudgetMatch(p, b)
             kept == SelectSeq(filtered_programs, Keep)
         IN  IF b.ok /\ kept # <<>> THEN kept ELSE filtered_programs
    ELSE filtered_programs

\* mutant: the list handed on uncut
CapStageOff(filtered_programs) == filtered_programs

\* lines 364-366 (and 166-168)
CapStage(filtered_programs) ==
    IF Len(filtered_programs) > ProgramCap
    THEN SubSeq(filtered_programs, 1, ProgramCap)
    ELSE filtered_programs

\* lines 292-366: the stages in order, each output kept
ChatProgramFilter(student, all_programs) ==
    LET loc == LocationStage(student, all_programs)
        fld == FieldStage(student, loc)
        bud == BudgetStage(student, fld)
    IN  [fetched |-> all_programs, location |-> loc, field |-> fld,
         budget |-> bud, capped |-> CapStage(bud)]

(***************************************************************************)
(* Location pre-filter of GroqService.generate_course_recommendations.     *)
(***************************************************************************)

\* line 153: iterating a str yields its characters, a list its elements
RecRequested(pl) ==
    IF pl.t = "str" THEN [i \in DOMAIN pl.v |-> <<pl.v[i]>>] ELSE pl.v

\* lines 152-157
RecLocationMatch(program, requested) ==
    LET program_location == Lower(program.location)
    IN  \E i \in DOMAIN requested :
            \/ Contains(Lower(requested[i]), program_location)
            \/ Contains(program_location, Lower(requested[i]))

\* lines 145-164
RecLocationStage(student, available_programs) ==
    IF Truthy(student.preferred_location)
    THEN LET requested == RecRequested(student.preferred_location)
             Keep(p) == RecLocationMatch(p, requested)
             kept == SelectSeq(available_programs, Keep)
         IN  IF kept = <<>> THEN available_programs ELSE kept
    ELSE available_programs

\* lines 145-168
RecProgramFilter(student, available_programs) ==
    LET loc == RecLocationStage(student, available_programs)
    IN  [fetched |-> available_programs, location |-> loc, capped |-> CapStage(loc)]

(***************************************************************************)
(* JSON extraction of extract_student_details and                          *)
(* generate_course_recommendations.  A completion text is a sequence over  *)
(* JsonAlphabet: the braces, "k" for a key with its colon, "1" for a       *)
(* number, the comma, and "x" for a character of prose.  A parsed value is *)
(* [t, members, text]: a number, a text, or an object with its set of      *)
(* <<key, value>> members.                                                 *)
(***************************************************************************)
JsonAlphabet == {"{", "}", "k", "1", ",", "x"}

JsonNum == [t |-> "num", members |-> {}, text |-> <<>>]
JsonStr(s) == [t |-> "str", members |-> {}, text |-> s]
JsonObj(ms) == [t |-> "obj", members |-> ms, text |-> <<>>]

\* d[key] = value on a dict
DictPut(ms, key, value) == {m \in ms : m[1] # key} \cup {<<key, value>>}

ParseFail == [ok |-> FALSE, val |-> JsonNum, next |-> 0]

\* json.loads: a recursive-descent parse of one value starting at s[i]
RECURSIVE ParseValue(_, _), ParseMembers(_, _, _)
ParseValue(s, i) ==
    IF i > Len(s) THEN ParseFail
    ELSE IF s[i] = "1" THEN [ok |-> TRUE, val |-> JsonNum, next |-> i + 1]
    ELSE IF s[i] = "{"
         THEN IF i + 1 <= Len(s) /\ s[i + 1] = "}"
              THEN [ok |-> TRUE, val |-> JsonObj({}), next |-> i + 2]
              ELSE ParseMembers(s, i + 1, {})
    ELSE ParseFail

ParseMembers(s, i, acc) ==
    IF i <= Len(s) /\ s[i] = "k"
    THEN LET v == ParseValue(s, i + 1)
         IN  IF ~v.ok THEN ParseFail
             ELSE LET acc2 == DictPut(acc, "k", v.val)
                      j == v.next
                  IN  IF j <= Len(s) /\ s[j] = ","
                      THEN ParseMembers(s, j + 1, acc2)
                      ELSE IF j <= Len(s) /\ s[j] = "}"
                           THEN [ok |-> TRUE, val |-> JsonObj(acc2), next |-> j + 1]
                           ELSE ParseFail
    ELSE ParseFail

\* json.loads(text): the whole text must be one value, else JSONDecodeError
JsonLoads(s) ==
    LET r == ParseValue(s, 1)
    IN  IF r.ok /\ r.next = Len(s) + 1
        THEN [ok |-> TRUE, val |-> r.val]
        ELSE [ok |-> FALSE, val |-> JsonNum]

\* str.find(c): the first 0-based index of c, or -1
Find(s, c) ==
    IF \E i \in DOMAIN s : s[i] = c
    THEN (CHOOSE i \in DOMAIN s : s[i] = c /\ \A j \in 1..(i - 1) : s[j] # c) - 1
    ELSE -1

\* str.rfind(c): the last 0-based index of c, or -1
RFind(s, c) ==
    IF \E i \in DOMAIN s : s[i] = c
    THEN (CHOOSE i \in DOMAIN s : s[i] = c /\ \A j \in (i + 1)..Len(s) : s[j] # c) - 1
    ELSE -1

\* content[a:b] for 0 <= a, 0 <= b
Slice(s, a, b) == SubSeq(s, a + 1, b)

\* mutant: the end of the span without the + 1 of line 95
JsonEndOffByOne(content) == RFind(content, "}")

\* lines 93-102 (and 255-264): the span handed to json.loads
JsonEnd(content) == RFind(content, "}") + 1

JsonCandidate(content) ==
    LET json_start == Find(content, "{")
        json_end == JsonEnd(content)
    IN  IF json_start >= 0 /\ json_end > 0
        THEN Slice(content, json_start, json_end)
        ELSE content

ExtractOk(v) == [kind |-> "value", val |-> v, error |-> "", raw_output |-> <<>>]
ExtractErr(e, raw) == [kind |-> "error", val |-> JsonNum, error |-> e, raw_output |-> raw]

\* lines 91-110 of extract_student_details
ExtractStudentDetails(content) ==
    LET parsed == JsonLoads(JsonCandidate(content))
    IN  IF parsed.ok THEN ExtractOk(parsed.val)
        ELSE ExtractErr("Failed to parse structured data", content)

\* lines 253-280 of generate_course_recommendations: the parsed value gets
\* the key raw_response; a value that is no dict raises TypeError, which
\* the outer handler turns into an error result
ExtractRecommendations(content) ==
    LET parsed == JsonLoads(JsonCandidate(content))
    IN  IF ~parsed.ok THEN ExtractErr("Failed to parse recommendations", content)
        ELSE IF parsed.val.t = "obj"
             THEN ExtractOk(JsonObj(DictPut(parsed.val.members, "raw_response",
                                            JsonStr(content))))
             ELSE ExtractErr("TypeError", <<>>)

(***************************************************************************)
(* State.                                                                  *)
(***************************************************************************)
VARIABLES
    students,   \* the students table: id -> row (NoRow when absent)
    programs,   \* the programs table, in the order select("*") returns it
    pc,         \* each conversation request's position in the handler
    sid,        \* its student_id
    msg,        \* its input_data.text
    snap,       \* its existing_student (the row read at line 236)
    rd,         \* student_data's messages inside add_conversation_message
    filt,       \* the outputs of the filter stages of chat_with_student
    payload,    \* the assembled completion request
    resp,       \* chat_response
    outcome,    \* the HTTP outcome of the request
    stages,     \* history: the stages the request has entered
    calls,      \* history: completion requests the request has sent
    writes,     \* history: turns the request has written to the store
    lookedUp,   \* history: what the lookup at line 236 found
    gwFailed,   \* history: whether a completion call of the request failed
    serial,     \* history: no request started while another was in flight
    fault,      \* history: the exception that ended the request, if any
    recs,       \* the pre-filter outputs of generate_course_recommendations
    llmText,    \* a completion text handed to the JSON extraction
    extracted,  \* the result of extract_student_details on llmText
    recommended, \* the result of generate_course_recommendations on llmText
    gateway,    \* per extraction operation: requests posted, reply status, body parsed
    profileReply, \* the last response of the student profile endpoints
    submitted,  \* history: the body each student was created from
    users,      \* the accounts of the auth service
    adminReply, \* the last response of an admin-protected endpoint
    progReq,    \* an update_program and a delete_program request under way
    conversation_histories, \* OpenAIAgentService.conversation_histories
    runs,       \* history: the inputs and the payload of each prompt assembly
    awaiting,   \* per student id: the agent calls waiting for Runner.run, and
                \* history: how many of its runs returned and how many raised
    probeReply  \* the last response of the root and health endpoints

vars == <<students, programs, pc, sid, msg, snap, rd, filt, payload, resp,
          outcome, stages, calls, writes, lookedUp, gwFailed, serial,
          fault, recs, llmText, extracted, recommended, gateway, profileReply,
          submitted, users, adminReply, progReq, conversation_histories, runs,
          awaiting, probeReply>>

reqVars == <<pc, sid, msg, snap, rd, filt, payload, resp, outcome, stages,
             calls, writes, lookedUp, gwFailed, serial, fault>>
pureVars == <<recs, llmText, extracted, recommended>>
gatewayVars == <<gateway>>
profileVars == <<profileReply, submitted>>
adminVars == <<users, adminReply, progReq>>
promptVars == <<conversation_histories, runs, awaiting>>
otherVars == <<gatewayVars, profileVars, adminVars, promptVars, probeReply>>

NoPref == [t |-> "none", v |-> <<>>]
NoRow == [exists |-> FALSE, preferred_location |-> NoPref,
          field_of_study |-> NoneVal, budget_range |-> NoneVal,
          study_mode |-> NoneVal, messages |-> <<>>]

\* the conversation_history of a creation body: left out (the default factory
\* gives an empty one), null, or given with its messages
AbsentHistory == [t |-> "absent", messages |-> <<>>]
NullHistory == [t |-> "null", messages |-> <<>>]
GivenHistory(messages) == [t |-> "given", messages |-> messages]

\* a row as StudentModel.create inserts it (lines 17-28, 43): the body's
\* fields, and the body's conversation history or an empty one
NewRow(body) ==
    [exists |-> TRUE, preferred_location |-> body.preferred_location,
     field_of_study |-> body.field_of_study, budget_range |-> body.budget_range,
     study_mode |-> body.study_mode,
     messages |-> body.conversation_history.messages]

\* ConversationMessage(role, content).dict()
Turn(role, content) == [role |-> role, content |-> content]

NoFilter == [fetched |-> <<>>, location |-> <<>>, field |-> <<>>,
             budget |-> <<>>, capped |-> <<>>]
NoRecs == [fetched |-> <<>>, location |-> <<>>, capped |-> <<>>]
NoPayload == [model |-> "", student |-> NoRow, programs |-> <<>>,
              history |-> <<>>, message |-> <<>>, max_tokens |-> 0,
              temperature |-> "", top_p |-> 0, stream |-> FALSE]
NoResp == [success |-> FALSE, has_error |-> FALSE, response |-> NoneVal, error |-> <<>>]
NoOutcome == [kind |-> "none", status |-> 0, success |-> FALSE,
              response |-> NoneVal, error |-> <<>>]
NoExtract == [kind |-> "none", val |-> JsonNum, error |-> "", raw_output |-> <<>>]

\* the operations of GroqService that parse a completion as JSON
GatewayOps == {"extract", "recommend"}
NoGateway == [op \in GatewayOps |-> [posts |-> 0, status |-> 0, parsed |-> FALSE]]

\* StudentUpdate with every field None
NoPreferences == [given |-> FALSE, study_mode |-> NoneVal, budget_range |-> NoneVal]
NoUpdate == [preferred_location |-> NoneVal, field_of_study |-> NoneVal,
             additional_preferences |-> NoPreferences]
NoBody == [preferred_location |-> NoPref, field_of_study |-> NoneVal,
           budget_range |-> NoneVal, study_mode |-> NoneVal,
           conversation_history |-> AbsentHistory]
NoProfileReply == [op |-> "none", id |-> 0, status |-> 0, request |-> NoUpdate,
                   body |-> NoRow]
NoAdminReply == [op |-> "none", token |-> "", status |-> 0]
NoProbeReply == [op |-> "none", status |-> 0, message |-> "", health |-> ""]
NoProgReq == [pc |-> "idle", id |-> 0, location |-> NoneVal, status |-> 0,
              returned |-> "nothing"]

(***************************************************************************)
(* Inputs of the conversation specification.                               *)
(***************************************************************************)
\* the text of request r and the completion text the endpoint may give it:
\* no operation compares two texts, so each request gets ones of its own
Texts(r) == {<<"text ", ToString(r)>>}
Completions(r) == {<<"reply ", ToString(r)>>}
FailStatuses == {500}

StrPref(s) == [t |-> "str", v |-> s]
ListPref(l) == [t |-> "list", v |-> l]

Bodies ==
    {[preferred_location |-> StrPref(<<"C", "a">>), field_of_study |-> <<"a">>,
      budget_range |-> <<"1", "-", "2">>, study_mode |-> NoneVal,
      conversation_history |-> AbsentHistory]}

Program(i, loc, title, fees) ==
    [id |-> i, location |-> loc, program_title |-> title, fees |-> fees]
IntFee(n) == [t |-> "int", v |-> n]
StrFee == [t |-> "str", v |-> 0]

Catalog ==
    <<Program(1, <<"c", "a">>, <<"d", "a">>, IntFee(1)),
      Program(2, <<"d">>, <<"c">>, IntFee(3))>>

\* response.text of a reply that is no completion
ErrorBody == <<"upstream error">>

\* what the completion endpoint may answer: a completion text, a 200 whose
\* content is null, a non-200 status, or no answer (network error, timeout);
\* text is the raw body, content the message content of its JSON
TextReplies(r) ==
    {[kind |-> "ok", status |-> HttpOk, content |-> c, text |-> c] : c \in Completions(r)}

GatewayReplies(r) ==
    TextReplies(r)
    \cup {[kind |-> "ok", status |-> HttpOk, content |-> NoneVal, text |-> <<>>]}
    \cup {[kind |-> "status", status |-> st, content |-> NoneVal, text |-> ErrorBody] :
              st \in FailStatuses}
    \cup {[kind |-> "exception", status |-> 0, content |-> NoneVal, text |-> <<>>]}

Active(r) == pc[r] \notin {"idle", "done"}

(***************************************************************************)
(* The student store.                                                      *)
(***************************************************************************)

\* StudentModel.create (student.py 12-57): POST /api/students
CreateStudent(s, body) ==
    /\ ~students[s].exists
    /\ students' = [students EXCEPT ![s] = NewRow(body)]
    /\ UNCHANGED <<programs, reqVars, pureVars, otherVars>>

\* mutant: the new message is not appended
AppendMessageDropped(messages, turn) == messages

\* line 119: conversation_history["messages"].append(new_message.dict())
AppendMessage(messages, turn) == Append(messages, turn)

\* mutant: the update stores the new message alone
StoreHistoryOnlyNew(table, s, messages) ==
    IF table[s].exists
    THEN [table EXCEPT ![s].messages = SubSeq(messages, Len(messages), Len(messages))]
    ELSE table

\* lines 122-124: update({"conversation_history": ...}).eq("id", student_id)
StoreHistory(table, s, messages) ==
    IF table[s].exists THEN [table EXCEPT ![s].messages = messages] ELSE table

(***************************************************************************)
(* GroqService.chat_with_student: the completion call and its result.      *)
(***************************************************************************)

\* lines 447-463: the dict chat_with_student returns for a reply
ChatResponse(reply) ==
    IF reply.kind = "exception"
    THEN [success |-> FALSE, has_error |-> TRUE, response |-> NoneVal,
          error |-> <<"Error in chat with student: ", "request failed">>]
    ELSE IF reply.status = HttpOk
         THEN [success |-> TRUE, has_error |-> FALSE, response |-> reply.content,
               error |-> <<>>]
         ELSE [success |-> FALSE, has_error |-> TRUE, response |-> NoneVal,
               error |-> <<"API request failed with status code ",
                           ToString(reply.status), ": ">> \o reply.text]

\* line 290 raising inside the try of chat_with_student (lines 459-463)
FetchFailed ==
    [success |-> FALSE, has_error |-> TRUE, response |-> NoneVal,
     error |-> <<"Error in chat with student: ", "store error">>]

\* lines 368-433: the completion request built from the inputs
AssemblePayload(student_data, filtered_programs, conversation_history, message) ==
    [model |-> "llama3-8b-8192", student |-> student_data,
     programs |-> filtered_programs, history |-> conversation_history,
     message |-> message, max_tokens |-> 1024, temperature |-> "0.7",
     top_p |-> 1, stream |-> FALSE]

(***************************************************************************)
(* handle_student_conversation (routers/student.py 216-295).               *)
(***************************************************************************)

\* lines 243-245: a str preferred_location becomes a one-element list
NormaliseLocation(row) ==
    IF row.preferred_location.t = "str"
    THEN [row EXCEPT !.preferred_location = ListPref(<<row.preferred_location.v>>)]
    ELSE row

\* mutant: the handler goes on when the student is missing
AfterLookupAlways(row) == "user_read"

\* lines 237-241: where the handler goes after the lookup
AfterLookup(row) == IF row.exists THEN "user_read" ELSE "done"

\* mutant: the handler does not test for an error
AfterChatIgnoresError(chat_response) == "asst_read"

\* mutant: the handler calls chat_with_student again after an error
AfterChatRetries(chat_response) ==
    IF chat_response.has_error THEN "chat" ELSE "asst_read"

\* line 264: "error" in chat_response
AfterChat(chat_response) == IF chat_response.has_error THEN "sys_read" ELSE "asst_read"

NotFoundOutcome ==
    [kind |-> "NotFound", status |-> 404, success |-> FALSE,
     response |-> NoneVal, error |-> <<"Student not found">>]
\* mutant: an error of chat_with_student is raised as an HTTP 500
DegradedOutcomeRaises(chat_response) ==
    [kind |-> "ServerError", status |-> 500, success |-> FALSE,
     response |-> NoneVal, error |-> <<"Failed to process conversation">>]

\* lines 270-274
DegradedOutcome(chat_response) ==
    [kind |-> "Degraded", status |-> HttpOk, success |-> FALSE,
     response |-> NoneVal, error |-> chat_response.error]
\* lines 283-287
SuccessOutcome(chat_response) ==
    [kind |-> "Success", status |-> HttpOk, success |-> TRUE,
     response |-> chat_response.response, error |-> <<>>]
\* lines 291-295
ServerErrorOutcome ==
    [kind |-> "ServerError", status |-> 500, success |-> FALSE,
     response |-> NoneVal, error |-> <<"Failed to process conversation">>]

\* the role and content of the add_conversation_message call the request is in
AddRole(r) ==
    CASE pc[r] \in {"user_read", "user_write"} -> "user"
      [] pc[r] \in {"sys_read", "sys_write"} -> "system"
      [] OTHER -> "assistant"
AddContent(r) ==
    CASE pc[r] \in {"user_read", "user_write"} -> msg[r]
      [] pc[r] \in {"sys_read", "sys_write"} -> <<"Error in chat: ">> \o resp[r].error
      [] OTHER -> resp[r].response
WritePc(r) ==
    CASE pc[r] = "user_read" -> "user_write"
      [] pc[r] = "sys_read" -> "sys_write"
      [] OTHER -> "asst_write"
\* where the handler continues when add_conversation_message returns
ReturnPc(r) ==
    IF pc[r] \in {"user_read", "user_write"} THEN "chat" ELSE "done"
ReturnOutcome(r) ==
    CASE pc[r] \in {"user_read", "user_write"} -> outcome[r]
      [] pc[r] \in {"sys_read", "sys_write"} -> DegradedOutcome(resp[r])
      [] OTHER -> SuccessOutcome(resp[r])

\* the handler's locals go out of scope when it returns
Local(np, value, none) == IF np = "done" THEN none ELSE value

\* a request arrives: POST /api/students/{student_id}/conversation.  Requests
\* are numbered in the order they arrive.
Start(r, s, m) ==
    /\ pc[r] = "idle"
    /\ \A q \in 1..(r - 1) : pc[q] # "idle"
    /\ pc' = [pc EXCEPT ![r] = "lookup"]
    /\ sid' = [sid EXCEPT ![r] = s]
    /\ msg' = [msg EXCEPT ![r] = m]
    /\ serial' = (serial /\ \A q \in Reqs : ~Active(q))
    /\ UNCHANGED <<students, programs, snap, rd, filt, payload, resp, outcome,
                   stages, calls, writes, lookedUp, gwFailed, fault, pureVars, otherVars>>

\* lines 234-245: the lookup; a store exception ends in the handler of 291-295
Lookup(r, ok) ==
    LET row == students[sid[r]]
        np == IF ok THEN AfterLookup(row) ELSE "done"
    IN  /\ pc[r] = "lookup"
        /\ stages' = [stages EXCEPT ![r] = Append(@, "StudentLookup")]
        /\ pc' = [pc EXCEPT ![r] = np]
        /\ lookedUp' = [lookedUp EXCEPT ![r] =
                           IF ~ok THEN @ ELSE IF row.exists THEN "found" ELSE "missing"]
        /\ snap' = [snap EXCEPT ![r] = Local(np, NormaliseLocation(row), NoRow)]
        /\ outcome' = [outcome EXCEPT ![r] =
                          IF ~ok THEN ServerErrorOutcome
                          ELSE IF np = "done" THEN NotFoundOutcome ELSE @]
        /\ fault' = [fault EXCEPT ![r] = IF ok THEN @ ELSE "store"]
        /\ UNCHANGED <<students, programs, sid, msg, rd, filt, payload, resp, calls,
                       writes, gwFailed, serial, pureVars, otherVars>>

\* add_conversation_message, lines 102-119: the read of the row, the early
\* return on a missing row, and the validation of the new message (content
\* must be a str); an exception ends in the handler of 291-295
AddRead(r, ok) ==
    LET row == students[sid[r]]
        raised == ~ok \/ (row.exists /\ ~IsStr(AddContent(r)))
        np == IF raised THEN "done"
              ELSE IF row.exists THEN WritePc(r) ELSE ReturnPc(r)
    IN  /\ pc[r] \in {"user_read", "sys_read", "asst_read"}
        /\ pc' = [pc EXCEPT ![r] = np]
        /\ outcome' = [outcome EXCEPT ![r] =
                          IF raised THEN ServerErrorOutcome
                          ELSE IF row.exists THEN @ ELSE ReturnOutcome(r)]
        /\ rd' = [rd EXCEPT ![r] =
                     IF ~raised /\ row.exists THEN row.messages ELSE <<>>]
        /\ snap' = [snap EXCEPT ![r] = Local(np, @, NoRow)]
        /\ filt' = [filt EXCEPT ![r] = Local(np, @, NoFilter)]
        /\ payload' = [payload EXCEPT ![r] = Local(np, @, NoPayload)]
        /\ resp' = [resp EXCEPT ![r] = Local(np, @, NoResp)]
        /\ fault' = [fault EXCEPT ![r] =
                        IF ~ok THEN "store" ELSE IF raised THEN "validation" ELSE @]
        /\ UNCHANGED <<students, programs, sid, msg, stages, calls, writes,
                       lookedUp, gwFailed, serial, pureVars, otherVars>>

\* add_conversation_message, lines 119-128: the append and the update of the
\* row, then the handler's return (lines 270-274, 283-287)
AddWrite(r, ok) ==
    LET np == IF ok THEN ReturnPc(r) ELSE "done"
        turn == Turn(AddRole(r), AddContent(r))
    IN  /\ pc[r] \in {"user_write", "sys_write", "asst_write"}
        /\ pc' = [pc EXCEPT ![r] = np]
        /\ outcome' = [outcome EXCEPT ![r] =
                          IF ok THEN ReturnOutcome(r) ELSE ServerErrorOutcome]
        /\ students' = IF ok THEN StoreHistory(students, sid[r], AppendMessage(rd[r], turn))
                       ELSE students
        /\ writes' = [writes EXCEPT ![r] =
                         IF ok /\ students[sid[r]].exists THEN Append(@, turn) ELSE @]
        /\ rd' = [rd EXCEPT ![r] = <<>>]
        /\ snap' = [snap EXCEPT ![r] = Local(np, @, NoRow)]
        /\ filt' = [filt EXCEPT ![r] = Local(np, @, NoFilter)]
        /\ payload' = [payload EXCEPT ![r] = Local(np, @, NoPayload)]
        /\ resp' = [resp EXCEPT ![r] = Local(np, @, NoResp)]
        /\ fault' = [fault EXCEPT ![r] = IF ok THEN @ ELSE "store"]
        /\ UNCHANGED <<programs, sid, msg, stages, calls, lookedUp, gwFailed,
                       serial, pureVars, otherVars>>

\* GroqService.chat_with_student as called at line 258: the fetch of the
\* programs and the filter (288-366), the prompt (368-433), the completion
\* call and its reply (435-463), then the branch of line 264.  The call has
\* no effect on the store, so it is one step; a fetch that raises is caught
\* at line 459 before any completion request is sent.
\* mutant: the fetch leaves the table empty
AfterGetAllEmptied(table) == <<>>

\* ProgramModel.get_all (models/program.py 21-29) is a select: the table
\* after it
AfterGetAll(table) == table

ChatWithStudent(r, ok, reply) ==
    /\ pc[r] = "chat"
    /\ IF ~ok
       THEN /\ stages' = [stages EXCEPT ![r] = Append(@, "Filtering")]
            /\ resp' = [resp EXCEPT ![r] = FetchFailed]
            /\ pc' = [pc EXCEPT ![r] = AfterChat(FetchFailed)]
            /\ UNCHANGED <<filt, payload, calls, gwFailed>>
       ELSE /\ stages' = [stages EXCEPT ![r] =
                             @ \o <<"Filtering", "Assembling", "GatewayCall">>]
            /\ filt' = [filt EXCEPT ![r] = ChatProgramFilter(snap[r], programs)]
            /\ payload' = [payload EXCEPT ![r] =
                              AssemblePayload(snap[r],
                                              ChatProgramFilter(snap[r], programs).capped,
                                              snap[r].messages, msg[r])]
            /\ calls' = [calls EXCEPT ![r] = @ + 1]
            /\ gwFailed' = [gwFailed EXCEPT ![r] = @ \/ reply.kind # "ok"]
            /\ resp' = [resp EXCEPT ![r] = ChatResponse(reply)]
            /\ pc' = [pc EXCEPT ![r] = AfterChat(ChatResponse(reply))]
    /\ programs' = AfterGetAll(programs)
    /\ UNCHANGED <<students, sid, msg, snap, rd, outcome, writes,
                   lookedUp, serial, fault, pureVars, otherVars>>

\* no request has arrived
NoRequests ==
    /\ pc = [r \in Reqs |-> "idle"]
    /\ sid = [r \in Reqs |-> 1]
    /\ msg = [r \in Reqs |-> <<>>]
    /\ snap = [r \in Reqs |-> NoRow]
    /\ rd = [r \in Reqs |-> <<>>]
    /\ filt = [r \in Reqs |-> NoFilter]
    /\ payload = [r \in Reqs |-> NoPayload]
    /\ resp = [r \in Reqs |-> NoResp]
    /\ outcome = [r \in Reqs |-> NoOutcome]
    /\ stages = [r \in Reqs |-> <<>>]
    /\ calls = [r \in Reqs |-> 0]
    /\ writes = [r \in Reqs |-> <<>>]
    /\ lookedUp = [r \in Reqs |-> "no"]
    /\ gwFailed = [r \in Reqs |-> FALSE]
    /\ serial = TRUE
    /\ fault = [r \in Reqs |-> "none"]

NoPure ==
    /\ recs = NoRecs
    /\ llmText = <<>>
    /\ extracted = NoExtract
    /\ recommended = NoExtract

\* the accounts of the auth service: an admin (user_metadata role "admin")
\* and an ordinary user
Accounts ==
    {[email |-> "admin@x", role |-> "admin"], [email |-> "user@x", role |-> "user"]}

\* no other endpoint has been called
NoOther ==
    /\ gateway = NoGateway
    /\ profileReply = NoProfileReply
    /\ submitted = [s \in DOMAIN students |-> NoBody]
    /\ users = Accounts
    /\ adminReply = NoAdminReply
    /\ progReq = [op \in {"update", "delete"} |-> NoProgReq]
    /\ conversation_histories = [s \in AgentIds |-> <<>>]
    /\ awaiting = [s \in AgentIds |-> [pending |-> 0, returned |-> 0, raised |-> 0]]
    /\ runs = {}
    /\ probeReply = NoProbeReply

Init ==
    /\ students = [s \in StudentIds |-> NoRow]
    /\ programs = Catalog
    /\ NoRequests
    /\ NoPure
    /\ NoOther

\* the store answers every call
Next ==
    \/ \E s \in StudentIds, body \in Bodies : CreateStudent(s, body)
    \/ \E r \in Reqs, s \in StudentIds : \E m \in Texts(r) : Start(r, s, m)
    \/ \E r \in Reqs : Lookup(r, TRUE)
    \/ \E r \in Reqs : AddRead(r, TRUE)
    \/ \E r \in Reqs : AddWrite(r, TRUE)
    \/ \E r \in Reqs : \E reply \in GatewayReplies(r) : ChatWithStudent(r, TRUE, reply)

Spec == Init /\ [][Next]_vars

\* a store call may raise
NextFault ==
    \/ \E s \in StudentIds, body \in Bodies : CreateStudent(s, body)
    \/ \E r \in Reqs, s \in StudentIds : \E m \in Texts(r) : Start(r, s, m)
    \/ \E r \in Reqs, ok \in BOOLEAN : Lookup(r, ok)
    \/ \E r \in Reqs, ok \in BOOLEAN : AddRead(r, ok)
    \/ \E r \in Reqs, ok \in BOOLEAN : AddWrite(r, ok)
    \/ \E r \in Reqs, ok \in BOOLEAN : \E reply \in GatewayReplies(r) :
           ChatWithStudent(r, ok, reply)

SpecFault == Init /\ [][NextFault]_vars

(***************************************************************************)
(* The program filters on drawn inputs: a stored student, a programs       *)
(* table, and request 1 about to call chat_with_student (its lookup and    *)
(* its user turn done).                                                    *)
(***************************************************************************)
FilterBodies ==
    [preferred_location :
         {NoPref, StrPref(<<>>), StrPref(<<"C", "a">>), StrPref(<<"x">>),
          ListPref(<< <<"c", "A">> >>), ListPref(<< <<"x">>, <<"D">> >>)},
     field_of_study : {NoneVal, <<"A">>, <<"x">>},
     budget_range : {NoneVal, <<"1", "-", "2">>, <<"2", "-", "5">>,
                     <<"6", "-", "9">>, <<"x">>, <<"1", "-", "2", "-", "3">>},
     study_mode : {NoneVal},
     conversation_history : {AbsentHistory}]

\* two programs, in Canada for 15000 and in Germany for 30000, and the
\* students who prefer Canada with a budget of 20000, written as the bare
\* number or as the range from 0
Canada == <<"C", "a", "n", "a", "d", "a">>
Germany == <<"G", "e", "r", "m", "a", "n", "y">>
CanadaGermany ==
    <<Program(1, Canada, <<"c">>, IntFee(15000)),
      Program(2, Germany, <<"d">>, IntFee(30000))>>
CanadaBodies ==
    [preferred_location : {StrPref(Canada), ListPref(<<Canada>>)},
     field_of_study : {NoneVal},
     budget_range : {<<"2", "0", "0", "0", "0">>,
                     <<"0", "-", "2", "0", "0", "0", "0">>},
     study_mode : {NoneVal},
     conversation_history : {AbsentHistory}]

ProgramKinds ==
    {[location |-> <<"C", "a">>, program_title |-> <<"d", "A">>, fees |-> IntFee(1)],
     [location |-> <<"c", "a">>, program_title |-> <<"c">>, fees |-> IntFee(5)],
     [location |-> <<"d">>, program_title |-> <<"a">>, fees |-> IntFee(2)],
     [location |-> <<"c", "a", "d">>, program_title |-> <<"c">>, fees |-> StrFee]}

\* a table of n * Len(kinds) programs, ids in table order
MakePrograms(kinds, n) ==
    [i \in 1..(n * Len(kinds)) |->
        LET k == kinds[((i - 1) % Len(kinds)) + 1]
        IN  Program(i, k.location, k.program_title, k.fees)]

FilterTables ==
    {MakePrograms(kinds, n) :
        kinds \in UNION {[1..len -> ProgramKinds] : len \in 0..MaxFetched},
        n \in {1, BulkFactor}}

InitFilter ==
    /\ \E body \in FilterBodies \cup CanadaBodies :
          /\ students = [s \in StudentIds |->
                            [NewRow(body) EXCEPT !.messages =
                                <<Turn("user", CHOOSE m \in Texts(1) : TRUE)>>]]
          /\ snap = [r \in Reqs |->
                        IF r = 1 THEN NormaliseLocation(NewRow(body)) ELSE NoRow]
    /\ programs \in FilterTables \cup {CanadaGermany}
    /\ pc = [r \in Reqs |-> IF r = 1 THEN "chat" ELSE "idle"]
    /\ sid = [r \in Reqs |-> 1]
    /\ msg = [r \in Reqs |-> IF r = 1 THEN CHOOSE m \in Texts(1) : TRUE ELSE <<>>]
    /\ rd = [r \in Reqs |-> <<>>]
    /\ filt = [r \in Reqs |-> NoFilter]
    /\ payload = [r \in Reqs |-> NoPayload]
    /\ resp = [r \in Reqs |-> NoResp]
    /\ outcome = [r \in Reqs |-> NoOutcome]
    /\ stages = [r \in Reqs |-> IF r = 1 THEN <<"StudentLookup">> ELSE <<>>]
    /\ calls = [r \in Reqs |-> 0]
    /\ writes = [r \in Reqs |->
                    IF r = 1 THEN <<Turn("user", CHOOSE m \in Texts(1) : TRUE)>>
                    ELSE <<>>]
    /\ lookedUp = [r \in Reqs |-> IF r = 1 THEN "found" ELSE "no"]
    /\ gwFailed = [r \in Reqs |-> FALSE]
    /\ serial = TRUE
    /\ fault = [r \in Reqs |-> "none"]
    /\ NoPure
    /\ NoOther

\* generate_course_recommendations, lines 145-168, on the stored student
RecommendFilter ==
    /\ recs = NoRecs
    /\ recs' = RecProgramFilter(students[1], programs)
    /\ UNCHANGED <<students, programs, reqVars, llmText, extracted, recommended, otherVars>>

NextFilter ==
    \/ \E reply \in TextReplies(1) : ChatWithStudent(1, TRUE, reply)
    \/ RecommendFilter

SpecFilter == InitFilter /\ [][NextFilter]_vars

(***************************************************************************)
(* The JSON extraction on drawn completion texts.                          *)
(***************************************************************************)
JsonTexts == UNION {[1..n -> JsonAlphabet] : n \in 0..MaxText}

InitJson ==
    /\ students = [s \in StudentIds |-> NoRow]
    /\ programs = Catalog
    /\ NoRequests
    /\ recs = NoRecs
    /\ llmText \in JsonTexts
    /\ extracted = NoExtract
    /\ recommended = NoExtract
    /\ NoOther

\* extract_student_details, lines 88-110, on the completion text
ExtractDetails ==
    /\ extracted = NoExtract
    /\ extracted' = ExtractStudentDetails(llmText)
    /\ UNCHANGED <<students, programs, reqVars, recs, llmText, recommended, otherVars>>

\* generate_course_recommendations, lines 250-280, on the completion text
Recommend ==
    /\ recommended = NoExtract
    /\ recommended' = ExtractRecommendations(llmText)
    /\ UNCHANGED <<students, programs, reqVars, recs, llmText, extracted, otherVars>>

NextJson == ExtractDetails \/ Recommend

SpecJson == InitJson /\ [][NextJson]_vars

(***************************************************************************)
(* The three gateway operations against a completion endpoint that may     *)
(* answer any status: request 1 about to call chat_with_student, and       *)
(* extract_student_details and generate_course_recommendations called      *)
(* once each.                                                              *)
(***************************************************************************)
GatewayTexts == {<<"{", "}">>, <<"{", "k", "1", "}">>, <<"1">>, <<"x">>}
ReplyStatuses == {HttpOk, 429, 500}

\* the reply to an extraction request: a status and a body whose message
\* content is llmText, or no reply (network error, timeout)
ExtractionReplies ==
    {[kind |-> "status", status |-> st, content |-> llmText] : st \in ReplyStatuses}
    \cup {[kind |-> "exception", status |-> 0, content |-> <<>>]}

\* mutant: the error text without the status code
ApiErrorNoStatus(status) ==
    [kind |-> "error", val |-> JsonNum, error |-> "API error", raw_output |-> <<>>]

\* lines 82-86 and 244-248: the result on a status other than 200
ApiError(status) ==
    [kind |-> "error", val |-> JsonNum, error |-> "API error: " \o ToString(status),
     raw_output |-> <<>>]

\* lines 112-116 and 276-280: the result when the request raises
RequestError ==
    [kind |-> "error", val |-> JsonNum, error |-> "request failed", raw_output |-> <<>>]

\* what the call records: one request posted, the status it got, and
\* whether response.json() was read (lines 88, 250)
Posted(op, reply) ==
    [gateway EXCEPT ![op] = [posts |-> @.posts + 1, status |-> reply.status,
                             parsed |-> reply.kind = "status" /\ reply.status = HttpOk]]

\* extract_student_details, lines 75-116
ExtractRequest(reply) ==
    /\ gateway["extract"].posts = 0
    /\ extracted = NoExtract
    /\ gateway' = Posted("extract", reply)
    /\ extracted' = IF reply.kind = "exception" THEN RequestError
                    ELSE IF reply.status # HttpOk THEN ApiError(reply.status)
                    ELSE ExtractStudentDetails(reply.content)
    /\ UNCHANGED <<students, programs, reqVars, recs, llmText, recommended,
                   profileVars, adminVars, promptVars, probeReply>>

\* generate_course_recommendations, lines 237-280
RecommendRequest(reply) ==
    /\ gateway["recommend"].posts = 0
    /\ recommended = NoExtract
    /\ gateway' = Posted("recommend", reply)
    /\ recommended' = IF reply.kind = "exception" THEN RequestError
                      ELSE IF reply.status # HttpOk THEN ApiError(reply.status)
                      ELSE ExtractRecommendations(reply.content)
    /\ UNCHANGED <<students, programs, reqVars, recs, llmText, extracted,
                   profileVars, adminVars, promptVars, probeReply>>

InitGateway ==
    /\ \E body \in Bodies :
          /\ students = [s \in StudentIds |->
                            [NewRow(body) EXCEPT !.messages =
                                <<Turn("user", CHOOSE m \in Texts(1) : TRUE)>>]]
          /\ snap = [r \in Reqs |->
                        IF r = 1 THEN NormaliseLocation(NewRow(body)) ELSE NoRow]
    /\ programs = Catalog
    /\ pc = [r \in Reqs |-> IF r = 1 THEN "chat" ELSE "idle"]
    /\ sid = [r \in Reqs |-> 1]
    /\ msg = [r \in Reqs |-> IF r = 1 THEN CHOOSE m \in Texts(1) : TRUE ELSE <<>>]
    /\ rd = [r \in Reqs |-> <<>>]
    /\ filt = [r \in Reqs |-> NoFilter]
    /\ payload = [r \in Reqs |-> NoPayload]
    /\ resp = [r \in Reqs |-> NoResp]
    /\ outcome = [r \in Reqs |-> NoOutcome]
    /\ stages = [r \in Reqs |-> IF r = 1 THEN <<"StudentLookup">> ELSE <<>>]
    /\ calls = [r \in Reqs |-> 0]
    /\ writes = [r \in Reqs |->
                    IF r = 1 THEN <<Turn("user", CHOOSE m \in Texts(1) : TRUE)>>
                    ELSE <<>>]
    /\ lookedUp = [r \in Reqs |-> IF r = 1 THEN "found" ELSE "no"]
    /\ gwFailed = [r \in Reqs |-> FALSE]
    /\ serial = TRUE
    /\ fault = [r \in Reqs |-> "none"]
    /\ recs = NoRecs
    /\ llmText \in GatewayTexts
    /\ extracted = NoExtract
    /\ recommended = NoExtract
    /\ NoOther

NextGateway ==
    \/ \E reply \in GatewayReplies(1) : ChatWithStudent(1, TRUE, reply)
    \/ \E reply \in ExtractionReplies : ExtractRequest(reply)
    \/ \E reply \in ExtractionReplies : RecommendRequest(reply)

SpecGateway == InitGateway /\ [][NextGateway]_vars

(***************************************************************************)
(* The student profile endpoints: POST /api/students, GET                  *)
(* /api/students/{id} and PUT /api/students/{id}/update, on a store that   *)
(* holds up to NumProfiles students.                                       *)
(***************************************************************************)
ProfileIds == 1..NumProfiles

CreateBodies ==
    [preferred_location : {StrPref(<<"C", "a">>)},
     field_of_study : {<<"a">>},
     budget_range : {NoneVal, <<"1", "-", "2">>},
     study_mode : {NoneVal},
     conversation_history :
         {AbsentHistory, NullHistory, GivenHistory(<<>>),
          GivenHistory(<<Turn("assistant", <<"seeded">>)>>)}]

Preferences(study_mode, budget_range) ==
    [given |-> TRUE, study_mode |-> study_mode, budget_range |-> budget_range]

UpdateRequests ==
    {NoUpdate,
     [NoUpdate EXCEPT !.preferred_location = <<"x">>],
     [NoUpdate EXCEPT !.field_of_study = <<"c">>],
     [NoUpdate EXCEPT !.additional_preferences = Preferences(<<"m">>, NoneVal)],
     [NoUpdate EXCEPT !.preferred_location = <<"x">>,
                      !.additional_preferences = Preferences(NoneVal, <<"6", "-", "9">>)]}

\* a student with a conversation behind them
TalkedRow ==
    [NewRow(CHOOSE b \in Bodies : TRUE) EXCEPT
        !.messages = <<Turn("user", <<"hi">>), Turn("assistant", <<"hello">>)>>]

\* student.py 41-46: the insert serialises the row as JSON.  A message of a
\* given conversation_history carries a datetime timestamp (schemas 26) that
\* lines 26-28 leave unconverted, as the message add_conversation_message
\* appends does (lines 108-119); whether the store client encodes a datetime
\* or raises on it is the client library's, so both are outcomes
InsertRaises(body, encodes) == body.conversation_history.messages # <<>> /\ ~encodes

\* line 75: the non-None fields of the update
UpdateData(upd) ==
    {f \in {"preferred_location", "field_of_study"} : IsStr(upd[f])}
    \cup (IF upd.additional_preferences.given THEN {"additional_preferences"} ELSE {})

\* mutant: the update writes every field of the request, None included
ApplyUpdateAll(row, upd) ==
    [row EXCEPT
        !.preferred_location =
            IF IsStr(upd.preferred_location) THEN StrPref(upd.preferred_location)
            ELSE NoPref,
        !.field_of_study = upd.field_of_study,
        !.study_mode = upd.additional_preferences.study_mode,
        !.budget_range = upd.additional_preferences.budget_range]

\* line 92: update(update_data).eq("id", student_id) sets the columns of
\* update_data; additional_preferences is one column, replaced as a whole
ApplyUpdate(row, upd) ==
    [row EXCEPT
        !.preferred_location =
            IF "preferred_location" \in UpdateData(upd)
            THEN StrPref(upd.preferred_location) ELSE @,
        !.field_of_study =
            IF "field_of_study" \in UpdateData(upd) THEN upd.field_of_study ELSE @,
        !.study_mode =
            IF "additional_preferences" \in UpdateData(upd)
            THEN upd.additional_preferences.study_mode ELSE @,
        !.budget_range =
            IF "additional_preferences" \in UpdateData(upd)
            THEN upd.additional_preferences.budget_range ELSE @]

ProfileReply(op, s, status, request, body) ==
    [op |-> op, id |-> s, status |-> status, request |-> request, body |-> body]

\* create_student_session (routers/student.py 14-25) with StudentModel.create:
\* the store generates the id
CreateStudentSession(s, body, encodes) ==
    /\ ~students[s].exists
    /\ IF InsertRaises(body, encodes)
       THEN /\ profileReply' = ProfileReply("create", 0, 500, NoUpdate, NoRow)
            /\ UNCHANGED <<students, submitted>>
       ELSE /\ students' = [students EXCEPT ![s] = NewRow(body)]
            /\ submitted' = [submitted EXCEPT ![s] = body]
            /\ profileReply' = ProfileReply("create", s, 201, NoUpdate, NewRow(body))
    /\ UNCHANGED <<programs, reqVars, pureVars, gatewayVars, adminVars, promptVars,
                   probeReply>>

\* get_student (routers/student.py 27-45)
GetStudent(s) ==
    /\ profileReply' = IF students[s].exists
                       THEN ProfileReply("get", s, HttpOk, NoUpdate, students[s])
                       ELSE ProfileReply("get", s, 404, NoUpdate, NoRow)
    /\ UNCHANGED <<students, programs, reqVars, pureVars, gatewayVars, submitted,
                   adminVars, promptVars, probeReply>>

\* update_student_profile (routers/student.py 297-360) with
\* StudentModel.update (student.py 70-97)
UpdateStudentProfile(s, upd) ==
    /\ IF ~students[s].exists
       THEN /\ profileReply' = ProfileReply("update", s, 404, upd, NoRow)
            /\ UNCHANGED <<students, submitted>>
       ELSE /\ students' = [students EXCEPT ![s] = ApplyUpdate(@, upd)]
            /\ submitted' = [submitted EXCEPT ![s] = NoBody]
            /\ profileReply' = ProfileReply("update", s, HttpOk, upd,
                                            ApplyUpdate(students[s], upd))
    /\ UNCHANGED <<programs, reqVars, pureVars, gatewayVars, adminVars, promptVars,
                   probeReply>>

InitProfile ==
    /\ students \in {[s \in ProfileIds |-> NoRow],
                     [s \in ProfileIds |-> IF s = 1 THEN TalkedRow ELSE NoRow]}
    /\ programs = Catalog
    /\ NoRequests
    /\ NoPure
    /\ NoOther

NextProfile ==
    \/ \E s \in ProfileIds, body \in CreateBodies, encodes \in BOOLEAN :
           CreateStudentSession(s, body, encodes)
    \/ \E s \in ProfileIds : GetStudent(s)
    \/ \E s \in ProfileIds, upd \in UpdateRequests : UpdateStudentProfile(s, upd)

SpecProfile == InitProfile /\ [][NextProfile]_vars

(***************************************************************************)
(* The admin-protected endpoints: the program CRUD of routers/program.py   *)
(* behind get_current_admin_user, and POST /api/admin/register behind      *)
(* get_current_admin (utils/auth.py).                                      *)
(***************************************************************************)
\* a request's bearer token: none sent, one the auth service rejects, the
\* token of the ordinary user, the token of the admin
Tokens == {"", "bad", "user-token", "admin-token"}

\* supabase_client.auth.get_user(token): the account of a token it verifies
TokenVerifies(token) == token \in {"user-token", "admin-token"}
TokenRole(token) == IF token = "admin-token" THEN "admin" ELSE "user"

\* HTTPBearer() (auth.py 8) rejects a request without credentials before the
\* dependency runs; the status is the framework's: 403 in the releases that
\* answer "Not authenticated" as forbidden, 401 in the later ones
MissingTokenStatuses == {401, 403}

\* get_current_admin_user (auth.py 10-67): 0 when the dependency passes,
\* else the status it raises.  Any verified user passes (lines 43-51).
AdminUserDependency(token) == IF TokenVerifies(token) THEN 0 ELSE 401

\* get_current_admin (auth.py 69-84) with AdminModel.get_current_admin
\* (models/admin.py 58-75): the user_metadata role must be "admin"
AdminDependency(token) ==
    IF TokenVerifies(token) /\ TokenRole(token) = "admin" THEN 0 ELSE 401

AdminReply(op, token, status) == [op |-> op, token |-> token, status |-> status]

\* the outcome of the security scheme and a dependency for a token: the
\* handler runs only on 0
Gate(token, dependency) ==
    IF token = "" THEN MissingTokenStatuses
    ELSE {dependency}

ProgramIndex(id) ==
    IF \E i \in DOMAIN programs : programs[i].id = id
    THEN CHOOSE i \in DOMAIN programs : programs[i].id = id
    ELSE 0

FreeProgramIds == {id \in 1..MaxPrograms : ProgramIndex(id) = 0}

NewPrograms(id) == {Program(id, <<"d">>, <<"a">>, IntFee(2))}
ProgramUpdates == {[location |-> NoneVal], [location |-> <<"x">>]}

\* ProgramModel.update (models/program.py 44-59): the non-None fields
ApplyProgramUpdate(program, upd) ==
    IF IsStr(upd.location) THEN [program EXCEPT !.location = upd.location]
    ELSE program

RemoveAt(seq, i) == SubSeq(seq, 1, i - 1) \o SubSeq(seq, i + 1, Len(seq))

AdminFrame ==
    UNCHANGED <<students, reqVars, pureVars, gatewayVars, profileVars, promptVars,
                probeReply, progReq>>

\* create_program (routers/program.py 14-29)
CreateProgram(token, gate, id, program) ==
    /\ gate \in Gate(token, AdminUserDependency(token))
    /\ gate = 0 => id \in FreeProgramIds
    /\ IF gate = 0
       THEN /\ programs' = Append(programs, program)
            /\ adminReply' = AdminReply("create_program", token, 201)
       ELSE /\ adminReply' = AdminReply("create_program", token, gate)
            /\ UNCHANGED programs
    /\ UNCHANGED users
    /\ AdminFrame

\* get_all_programs (31-46) and get_program (48-70)
ReadPrograms(token, gate, id) ==
    /\ gate \in Gate(token, AdminUserDependency(token))
    /\ adminReply' =
          IF gate # 0 THEN AdminReply("read_programs", token, gate)
          ELSE IF id = 0 \/ ProgramIndex(id) # 0
               THEN AdminReply("read_programs", token, HttpOk)
               ELSE AdminReply("read_programs", token, 404)
    /\ UNCHANGED <<programs, users>>
    /\ AdminFrame

\* update_program (72-97)
UpdateProgram(token, gate, id, upd) ==
    /\ gate \in Gate(token, AdminUserDependency(token))
    /\ IF gate # 0
       THEN /\ adminReply' = AdminReply("update_program", token, gate)
            /\ UNCHANGED programs
       ELSE IF ProgramIndex(id) = 0
            THEN /\ adminReply' = AdminReply("update_program", token, 404)
                 /\ UNCHANGED programs
            ELSE /\ programs' = [programs EXCEPT ![ProgramIndex(id)] =
                                    ApplyProgramUpdate(@, upd)]
                 /\ adminReply' = AdminReply("update_program", token, HttpOk)
    /\ UNCHANGED users
    /\ AdminFrame

\* delete_program (99-128)
DeleteProgram(token, gate, id) ==
    /\ gate \in Gate(token, AdminUserDependency(token))
    /\ IF gate # 0
       THEN /\ adminReply' = AdminReply("delete_program", token, gate)
            /\ UNCHANGED programs
       ELSE IF ProgramIndex(id) = 0
            THEN /\ adminReply' = AdminReply("delete_program", token, 404)
                 /\ UNCHANGED programs
            ELSE /\ programs' = RemoveAt(programs, ProgramIndex(id))
                 /\ adminReply' = AdminReply("delete_program", token, 204)
    /\ UNCHANGED users
    /\ AdminFrame

NewAdmin == [email |-> "new@x", role |-> "admin"]

\* register (routers/admin.py 24-37) with AdminModel.create_admin; the
\* sign-up of an email that has an account fails (400)
Register(token, gate) ==
    /\ gate \in Gate(token, AdminDependency(token))
    /\ IF gate # 0
       THEN /\ adminReply' = AdminReply("register", token, gate)
            /\ UNCHANGED users
       ELSE IF NewAdmin \in users
            THEN /\ adminReply' = AdminReply("register", token, 400)
                 /\ UNCHANGED users
            ELSE /\ users' = users \cup {NewAdmin}
                 /\ adminReply' = AdminReply("register", token, HttpOk)
    /\ UNCHANGED programs
    /\ AdminFrame

GateOutcomes == {0, 401, 403}

NextAdmin ==
    \/ \E token \in Tokens, gate \in GateOutcomes, id \in 1..MaxPrograms :
           \E program \in NewPrograms(id) : CreateProgram(token, gate, id, program)
    \/ \E token \in Tokens, gate \in GateOutcomes, id \in 0..MaxPrograms :
           ReadPrograms(token, gate, id)
    \/ \E token \in Tokens, gate \in GateOutcomes, id \in 1..MaxPrograms,
          upd \in ProgramUpdates : UpdateProgram(token, gate, id, upd)
    \/ \E token \in Tokens, gate \in GateOutcomes, id \in 1..MaxPrograms :
           DeleteProgram(token, gate, id)
    \/ \E token \in Tokens, gate \in GateOutcomes : Register(token, gate)

SpecAdmin == Init /\ [][NextAdmin]_vars

(***************************************************************************)
(* Prompt assembly: the request payload of GroqService.chat_with_student   *)
(* (groq_service.py 368-433) and the agent input of                        *)
(* OpenAIAgentService.chat_with_student (openai_agent_service.py 269-407), *)
(* each run on drawn inputs; runs records the inputs and the payload of    *)
(* every assembly.                                                         *)
(***************************************************************************)
PromptStudents == {NormaliseLocation(NewRow(b)) : b \in Bodies}
PromptPrograms == {<<>>, Catalog}
\* a log of LongLog turns, user and assistant in turn
LongTurns ==
    [i \in 1..LongLog |->
        Turn(IF i % 2 = 1 THEN "user" ELSE "assistant", <<"turn ", ToString(i)>>)]
PromptTurns ==
    {<<>>, <<Turn("user", <<"hi">>), Turn("assistant", <<"hello">>)>>, LongTurns}
PromptMessages == {<<"m1">>, <<"m2">>}
AgentOutputs == {<<"advice">>}

\* lines 294-295: self.conversation_histories[student_id][-3:]
RecentHistory(history) ==
    SubSeq(history, IF Len(history) > 3 THEN Len(history) - 2 ELSE 1, Len(history))

\* lines 310-359: formatted_input, built from the student data, the recent
\* turns of the service's own history, and the message; the agent's model
\* is fixed at line 237 and it sets no sampling parameter
AgentInput(student_data, recent_history, message) ==
    [model |-> "gpt-4-turbo-preview", student |-> student_data, programs |-> <<>>,
     history |-> recent_history, message |-> message, max_tokens |-> 0,
     temperature |-> "", top_p |-> 0, stream |-> FALSE]

Run(service, id, student_data, filtered_programs, turns, message, request) ==
    [service |-> service, id |-> id, student |-> student_data,
     programs |-> filtered_programs, turns |-> turns,
     message |-> message, payload |-> request]

PromptFrame ==
    UNCHANGED <<students, programs, reqVars, pureVars, gatewayVars, profileVars,
                adminVars, probeReply>>

\* groq_service.py 368-433 on given inputs
GroqAssemble(student_data, filtered_programs, conversation_history, message) ==
    /\ Cardinality(runs) < MaxRuns
    /\ runs' = runs \cup
          {Run("groq", 0, student_data, filtered_programs, conversation_history,
               message,
               AssemblePayload(student_data, filtered_programs, conversation_history,
                               message))}
    /\ UNCHANGED <<conversation_histories, awaiting>>
    /\ PromptFrame

\* OpenAIAgentService.chat_with_student up to the await of Runner.run: the
\* message is appended to the service's history of the student (284-292) and
\* the input is built from its last three turns (294-359)
AgentChat(s, student_data, conversation_history, message) ==
    LET withMessage == Append(conversation_histories[s], Turn("student", message))
    IN  /\ Cardinality(runs) < MaxRuns
        /\ Len(withMessage) < MaxCached
        /\ runs' = runs \cup
              {Run("agent", s, student_data, <<>>, conversation_history, message,
                   AgentInput(student_data, RecentHistory(withMessage), message))}
        /\ conversation_histories' = [conversation_histories EXCEPT ![s] = withMessage]
        /\ awaiting' = [awaiting EXCEPT ![s].pending = @ + 1]
        /\ PromptFrame

\* mutant: a failed run takes the inbound message out of the history again
AfterRunForgets(history, ok, output) ==
    IF ok THEN Append(history, Turn("assistant", output))
    ELSE SubSeq(history, 1, Len(history) - 1)

\* lines 375-379 and 399-406: the agent's output is appended; a run that
\* raises leaves the history as it is
AfterRun(history, ok, output) ==
    IF ok THEN Append(history, Turn("assistant", output)) ELSE history

\* Runner.run returns or raises (366-406) for a call of student s
AgentRunReturns(s, ok, output) ==
    /\ awaiting[s].pending > 0
    /\ awaiting' = [awaiting EXCEPT ![s].pending = @ - 1,
                                    ![s].returned = IF ok THEN @ + 1 ELSE @,
                                    ![s].raised = IF ok THEN @ ELSE @ + 1]
    /\ conversation_histories' =
          [conversation_histories EXCEPT ![s] = AfterRun(@, ok, output)]
    /\ UNCHANGED runs
    /\ PromptFrame

NextPrompt ==
    \/ \E student_data \in PromptStudents, filtered_programs \in PromptPrograms,
          conversation_history \in PromptTurns, message \in PromptMessages :
           GroqAssemble(student_data, filtered_programs, conversation_history, message)
    \/ \E s \in AgentIds, student_data \in PromptStudents,
          conversation_history \in PromptTurns, message \in PromptMessages :
           AgentChat(s, student_data, conversation_history, message)
    \/ \E s \in AgentIds, ok \in BOOLEAN, output \in AgentOutputs :
           AgentRunReturns(s, ok, output)

SpecPrompt == Init /\ [][NextPrompt]_vars

(***************************************************************************)
(* The root and health endpoints (main.py 75-91), called with any bearer   *)
(* token or none while conversation requests are under way.                *)
(***************************************************************************)
WelcomeMessage == "Welcome to the AI-Powered Student Counseling Platform API"

\* mutant: the root endpoint behind the bearer-token dependency
ReadRootReplyGated(token) ==
    IF TokenVerifies(token)
    THEN [op |-> "read_root", status |-> HttpOk, message |-> WelcomeMessage,
          health |-> ""]
    ELSE [op |-> "read_root", status |-> 401, message |-> "", health |-> ""]

\* read_root, lines 75-82: no dependency, a constant body
ReadRootReply(token) ==
    [op |-> "read_root", status |-> HttpOk, message |-> WelcomeMessage, health |-> ""]

\* health_check, lines 84-91
HealthCheckReply(token) ==
    [op |-> "health_check", status |-> HttpOk, message |-> "", health |-> "ok"]

ProbeFrame ==
    UNCHANGED <<students, programs, reqVars, pureVars, gatewayVars, profileVars,
                adminVars, promptVars>>

ReadRoot(token) ==
    /\ probeReply' = ReadRootReply(token)
    /\ ProbeFrame

HealthCheck(token) ==
    /\ probeReply' = HealthCheckReply(token)
    /\ ProbeFrame

NextProbe ==
    \/ NextFault
    \/ \E token \in Tokens : ReadRoot(token)
    \/ \E token \in Tokens : HealthCheck(token)

SpecProbe == Init /\ [][NextProbe]_vars

(***************************************************************************)
(* Conversation requests while an admin manages the programs: the steps of *)
(* the conversation specification interleaved with create_program,         *)
(* update_program and delete_program under an admin's token, one program   *)
(* each.                                                                   *)
(***************************************************************************)
NextCatalog ==
    \/ Next
    \/ \E program \in NewPrograms(MaxPrograms) :
           CreateProgram("admin-token", 0, MaxPrograms, program)
    \/ UpdateProgram("admin-token", 0, 1, [location |-> <<"x">>])
    \/ DeleteProgram("admin-token", 0, 2)

SpecCatalog == Init /\ [][NextCatalog]_vars

(***************************************************************************)
(* update_program and delete_program as the store sees them: each handler  *)
(* first selects the program (ProgramModel.get_by_id), then writes, and a  *)
(* request of the other kind may run between the two.  Both requests carry *)
(* an admin's token.                                                       *)
(***************************************************************************)
RaceFrame ==
    UNCHANGED <<students, reqVars, pureVars, gatewayVars, profileVars, promptVars,
                probeReply, users, adminReply>>

Ended(id, location, status, returned) ==
    [pc |-> "done", id |-> id, location |-> location, status |-> status,
     returned |-> returned]

\* a finished request leaves; the next one of its kind may arrive
Leave(op) ==
    /\ progReq[op].pc = "done"
    /\ progReq' = [progReq EXCEPT ![op] = NoProgReq]
    /\ UNCHANGED programs
    /\ RaceFrame

\* routers/program.py 80-86 and 107-113: the existence check of either handler
CheckExists(op, id, upd) ==
    /\ progReq[op].pc = "idle"
    /\ op = "delete" => upd.location = NoneVal
    /\ progReq' = [progReq EXCEPT ![op] =
          IF ProgramIndex(id) = 0
          THEN Ended(id, upd.location, 404, "nothing")
          ELSE [pc |-> "checked", id |-> id, location |-> upd.location,
                status |-> 0, returned |-> "nothing"]]
    /\ UNCHANGED programs
    /\ RaceFrame

\* routers/program.py 88-89 with response_model=ProgramResponse (line 72):
\* the handler returns what ProgramModel.update returned; None does not
\* validate as a ProgramResponse, which the framework answers with 500
UpdateAnswer(result) ==
    IF result = "None" THEN [status |-> 500, returned |-> "nothing"]
    ELSE [status |-> HttpOk, returned |-> "row"]

\* ProgramModel.update (models/program.py 44-59) after the check: with no
\* non-None field the row is selected again, else the rows with the id are
\* updated; no row gives None
UpdateWrite ==
    LET req == progReq["update"]
        i == ProgramIndex(req.id)
        answer == UpdateAnswer(IF i = 0 THEN "None" ELSE "row")
    IN  /\ req.pc = "checked"
        /\ programs' = IF i = 0 THEN programs
                       ELSE [programs EXCEPT ![i] =
                                ApplyProgramUpdate(@, [location |-> req.location])]
        /\ progReq' = [progReq EXCEPT !["update"] =
                          Ended(req.id, req.location, answer.status, answer.returned)]
        /\ RaceFrame

\* ProgramModel.delete (62-69) after the check, and routers/program.py
\* 115-120: no deleted row is answered with 500
DeleteWrite ==
    LET req == progReq["delete"]
        i == ProgramIndex(req.id)
    IN  /\ req.pc = "checked"
        /\ programs' = IF i = 0 THEN programs ELSE RemoveAt(programs, i)
        /\ progReq' = [progReq EXCEPT !["delete"] =
                          Ended(req.id, req.location, IF i = 0 THEN 500 ELSE 204,
                                "nothing")]
        /\ RaceFrame

\* create_program by the same admin, so that a deleted id can come back
Recreate(id) ==
    /\ \E program \in NewPrograms(id) : CreateProgram("admin-token", 0, id, program)

NextRace ==
    \/ \E op \in {"update", "delete"}, id \in 1..MaxPrograms, upd \in ProgramUpdates :
           CheckExists(op, id, upd)
    \/ UpdateWrite
    \/ DeleteWrite
    \/ \E op \in {"update", "delete"} : Leave(op)
    \/ \E id \in 1..MaxPrograms : Recreate(id)

SpecRace == Init /\ [][NextRace]_vars

(***************************************************************************)
(* Properties.                                                             *)
(***************************************************************************)
IsPrefix(a, b) == Len(a) <= Len(b) /\ SubSeq(b, 1, Len(a)) = a

\* a is a subsequence of a table b whose rows are pairwise distinct (each has
\* its own id): the rows of a occur in b at strictly increasing positions
PositionIn(x, b) == CHOOSE j \in DOMAIN b : b[j] = x
IsSubsequence(a, b) ==
    /\ \A i \in DOMAIN a : \E j \in DOMAIN b : b[j] = a[i]
    /\ \A i \in 1..(Len(a) - 1) : PositionIn(a[i], b) < PositionIn(a[i + 1], b)

Started(r) == pc[r] # "idle"
Done(r) == pc[r] = "done"
\* chat_with_student of request r has run its filter
Filtered(r) == calls[r] = 1 /\ ~Done(r)

\* C1: the persisted conversation log is append-only: every step leaves each
\* student's stored message list a prefix of the new one, also when requests
\* for the same student are in flight together.
C1_AppendOnly ==
    [][\A s \in StudentIds :
          IsPrefix(students[s].messages, students'[s].messages)]_vars

\* C2: the candidate list of chat_with_student is a subsequence of the fetched
\* program list, and is non-empty whenever the fetched list is non-empty.
C2_FilterSubsequence ==
    \A r \in Reqs :
        Filtered(r) =>
            /\ filt[r].fetched = programs
            /\ IsSubsequence(filt[r].capped, programs)
            /\ (programs # <<>> => filt[r].capped # <<>>)

C2_Witness ==
    /\ Filtered(1)
    /\ Len(filt[1].location) < Len(filt[1].fetched)
    /\ Len(filt[1].budget) > ProgramCap
    /\ Len(filt[1].capped) = ProgramCap

\* the requested locations a function compares with: chat_with_student takes a
\* str as one location, generate_course_recommendations iterates it
C3_ChatRequested(pl) == IF pl.t = "str" THEN {pl.v} ELSE {pl.v[i] : i \in DOMAIN pl.v}
C3_RecRequested(pl) ==
    IF pl.t = "str" THEN {<<pl.v[i]>> : i \in DOMAIN pl.v}
    ELSE {pl.v[i] : i \in DOMAIN pl.v}
C3_NoChatMatch(pl, table) ==
    \A i \in DOMAIN table : \A l \in C3_ChatRequested(pl) :
        Lower(table[i].location) # Lower(l)
C3_NoRecMatch(pl, table) ==
    \A i \in DOMAIN table : \A l \in C3_RecRequested(pl) :
        /\ ~Contains(Lower(l), Lower(table[i].location))
        /\ ~Contains(Lower(table[i].location), Lower(l))

C4_NotFoundShortCircuit ==
    \A r \in Reqs :
        lookedUp[r] = "missing" =>
            /\ Done(r)
            /\ outcome[r].kind = "NotFound" /\ outcome[r].status = 404
            /\ stages[r] = <<"StudentLookup">>
            /\ calls[r] = 0
            /\ writes[r] = <<>>

C4_Witness ==
    \E r \in Reqs :
        /\ lookedUp[r] = "missing" /\ outcome[r].kind = "NotFound"
        /\ students[sid[r]].exists

\* C5: for an existing student, a request whose gateway call failed (non-200
\* status, network exception or timeout) writes its user turn and exactly one
\* system turn recording the error, writes no assistant turn, and returns 200
\* with success false and the error.
C5_GatewayFailureDegrades ==
    \A r \in Reqs :
        /\ gwFailed[r] => \A i \in DOMAIN writes[r] : writes[r][i].role # "assistant"
        /\ gwFailed[r] /\ Done(r) =>
              /\ outcome[r].kind = "Degraded"
              /\ outcome[r].status = HttpOk /\ ~outcome[r].success
              /\ outcome[r].error # <<>>
              /\ writes[r] = <<Turn("user", msg[r]),
                               Turn("system", <<"Error in chat: ">> \o outcome[r].error)>>

C5_Witness ==
    \E r \in Reqs :
        /\ gwFailed[r] /\ Done(r) /\ outcome[r].kind = "Degraded"
        /\ Len(students[sid[r]].messages) >= 2
        /\ students[sid[r]].messages[Len(students[sid[r]].messages)].role = "system"

\* C6: a request returns success with response text r only in a step that
\* writes the assistant turn with content r at the end of the student's stored
\* log; a failed append never returns success.
C6_SuccessAfterAppend ==
    [][\A r \in Reqs :
          outcome'[r].kind = "Success" /\ outcome[r].kind # "Success" =>
              LET log == students'[sid[r]].messages
              IN  /\ log # <<>>
                  /\ log[Len(log)] = Turn("assistant", outcome'[r].response)
                  /\ log # students[sid[r]].messages]_vars

C6_Witness ==
    \E r \in Reqs :
        LET log == students[sid[r]].messages
        IN  /\ outcome[r].kind = "Success"
            /\ log # <<>>
            /\ log[Len(log)] = Turn("assistant", outcome[r].response)

\* the turns of the started requests 1..n for student s, in arrival order
RECURSIVE SerialLog(_, _)
SerialLog(s, n) ==
    IF n = 0 THEN <<>>
    ELSE SerialLog(s, n - 1)
         \o (IF Started(n) /\ sid[n] = s
             THEN <<Turn("user", msg[n]), Turn("assistant", outcome[n].response)>>
             ELSE <<>>)

AllSucceeded ==
    \A r \in Reqs : Started(r) => Done(r) /\ outcome[r].kind = "Success"

\* C7: after N requests for a student issued strictly one after another, all
\* with a succeeding gateway, the student's log is user_1, assistant_1, ...,
\* user_N, assistant_N with the i-th text and the i-th response.
C7_SerialLog ==
    serial /\ AllSucceeded =>
        \A s \in StudentIds : students[s].messages = SerialLog(s, NumReqs)

C7_Witness ==
    /\ serial /\ AllSucceeded
    /\ \A r \in Reqs : Started(r)
    /\ Len(students[1].messages) = 2 * NumReqs

StageOrder == <<"StudentLookup", "Filtering", "Assembling", "GatewayCall">>

C9_NoRetry ==
    \A r \in Reqs :
        /\ calls[r] <= 1
        /\ Len(stages[r]) <= Len(StageOrder)
        /\ gwFailed[r] /\ Done(r) =>
              /\ calls[r] = 1
              /\ ~outcome[r].success
              /\ \E reply \in GatewayReplies(r) :
                    reply.kind # "ok" /\ outcome[r].error = ChatResponse(reply).error

C9_Witness ==
    \E r \in Reqs :
        /\ gwFailed[r] /\ Done(r) /\ calls[r] = 1
        /\ outcome[r].error =
               <<"API request failed with status code ", "500", ": ">> \o ErrorBody

\* the number of c among the first n characters of text
CountIn(text, c, n) == Cardinality({m \in 1..n : text[m] = c})
Depth(text, n) == CountIn(text, "{", n) - CountIn(text, "}", n)

\* text is prose, one {...} span, prose: the span from i to j is closed at j
\* and not before, and no brace lies outside it
IsSpan(text, i, j) ==
    /\ i < j /\ text[i] = "{" /\ text[j] = "}"
    /\ \A m \in (1..(i - 1)) \cup ((j + 1)..Len(text)) : text[m] \notin {"{", "}"}
    /\ \A m \in i..(j - 1) : Depth(text, m) > 0
    /\ Depth(text, j) = 0
HasOneSpan(text) == \E i, j \in DOMAIN text : IsSpan(text, i, j)
TheSpan(text) ==
    LET ij == CHOOSE ij \in (DOMAIN text) \X (DOMAIN text) : IsSpan(text, ij[1], ij[2])
    IN  SubSeq(text, ij[1], ij[2])

\* the result of parsing a span alone
ParsedAlone(span, failure) ==
    IF JsonLoads(span).ok THEN ExtractOk(JsonLoads(span).val)
    ELSE ExtractErr(failure, llmText)

\* C10 as stated: on a text with exactly one {...} span, both extractions
\* return the result of parsing the span alone.
C10_SpanParsedAlone ==
    HasOneSpan(llmText) =>
        /\ extracted # NoExtract =>
              extracted = ParsedAlone(TheSpan(llmText), "Failed to parse structured data")
        /\ recommended # NoExtract =>
              recommended = ParsedAlone(TheSpan(llmText), "Failed to parse recommendations")

\* the parsed span as generate_course_recommendations returns it
WithRawResponse(result) ==
    IF result.kind = "value"
    THEN ExtractOk(JsonObj(DictPut(result.val.members, "raw_response", JsonStr(llmText))))
    ELSE result

\* C10, amended: on a text with exactly one {...} span, extract_student_details
\* returns the result of parsing the span alone, and
\* generate_course_recommendations returns that result with the key
\* raw_response set to the whole text.
C10_SpanParsedAloneRaw ==
    HasOneSpan(llmText) =>
        /\ extracted # NoExtract =>
              extracted = ParsedAlone(TheSpan(llmText), "Failed to parse structured data")
        /\ recommended # NoExtract =>
              recommended = WithRawResponse(
                  ParsedAlone(TheSpan(llmText), "Failed to parse recommendations"))

C10_Witness ==
    /\ HasOneSpan(llmText)
    /\ llmText[1] = "x" /\ llmText[Len(llmText)] = "x"
    /\ extracted.kind = "value" /\ extracted.val.members # {}
    /\ recommended.kind = "value"

NoOpeningBrace(text) == \A i \in DOMAIN text : text[i] # "{"

\* C11: for a completion text that contains no "{", extract_student_details
\* returns a parse-error result carrying the raw output, never a parsed value.
C11_NoBraceFails ==
    NoOpeningBrace(llmText) /\ extracted # NoExtract =>
        /\ extracted.kind = "error"
        /\ extracted.error = "Failed to parse structured data"
        /\ extracted.raw_output = llmText

\* the result variable of an extraction operation
ResultOf(op) == IF op = "extract" THEN extracted ELSE recommended

\* C12: for each gateway operation, a completion response with a status other
\* than 200 yields a failure result whose error text carries that status, the
\* response body is not parsed, and no second request is sent.
C12_StatusFailure ==
    /\ [](\A op \in GatewayOps :
            /\ gateway[op].posts <= 1
            /\ gateway[op].status \notin {0, HttpOk} =>
                  /\ ResultOf(op).kind = "error"
                  /\ ResultOf(op).error = "API error: " \o ToString(gateway[op].status)
                  /\ ~gateway[op].parsed
                  /\ ResultOf(op).val = JsonNum)
    /\ [][\A reply \in GatewayReplies(1) :
            reply.kind = "status" /\ ChatWithStudent(1, TRUE, reply) =>
                /\ resp'[1].has_error /\ ~resp'[1].success
                /\ InList(ToString(reply.status), resp'[1].error)
                /\ resp'[1].response = NoneVal
                /\ calls'[1] = 1]_vars

C12_Witness ==
    /\ gateway["extract"].status = 500 /\ extracted.kind = "error"
    /\ gateway["recommend"].status = 429 /\ recommended.kind = "error"
    /\ calls[1] = 1 /\ gwFailed[1] /\ InList("500", resp[1].error)

C14_CreateReadRoundTrip ==
    LET body == submitted[profileReply.id]
        SameFields(row) ==
            /\ row.exists
            /\ row.preferred_location = body.preferred_location
            /\ row.field_of_study = body.field_of_study
            /\ row.budget_range = body.budget_range
            /\ row.study_mode = body.study_mode
            /\ row.messages = <<>>
    IN  /\ profileReply.op = "create" /\ profileReply.status = 201 =>
              body # NoBody /\ SameFields(profileReply.body)
        /\ profileReply.op = "get" /\ profileReply.status = HttpOk /\ body # NoBody =>
              SameFields(profileReply.body)

\* C15: an admin-protected operation executes its side effect only when the
\* bearer token verifies to an admin; with a missing or invalid token, or the
\* valid token of a user who is no admin, it answers 401 and leaves the
\* program table and the user set unchanged.
C15_AdminOnly ==
    [][adminReply' # NoAdminReply /\ adminReply'.token # "admin-token" =>
          /\ adminReply'.status = 401
          /\ programs' = programs
          /\ users' = users]_vars

\* C16: prompt assembly is deterministic: two runs of the same service on the
\* same student profile, program list, prior turns and message produce the
\* same payload, whatever ran before.
C16_PromptDeterministic ==
    \A a, b \in runs :
        /\ a.service = b.service /\ a.id = b.id
        /\ a.student = b.student /\ a.programs = b.programs
        /\ a.turns = b.turns /\ a.message = b.message
        => a.payload = b.payload

\* the payloads of GroqService.chat_with_student alone are a function of
\* the inputs
GroqPromptDeterministic ==
    \A a, b \in runs :
        /\ a.service = "groq" /\ b.service = "groq"
        /\ a.student = b.student /\ a.programs = b.programs
        /\ a.turns = b.turns /\ a.message = b.message
        => a.payload = b.payload

\* the student prefers Canada and has a budget of 20000
C17_CanadaStudent(row) ==
    /\ row.preferred_location.t \in {"str", "list"}
    /\ row.preferred_location.v =
          (IF row.preferred_location.t = "str" THEN Canada ELSE <<Canada>>)
    /\ row.budget_range \in {<<"2", "0", "0", "0", "0">>,
                             <<"0", "-", "2", "0", "0", "0", "0">>}

\* C17: with exactly the two programs Canada/15000 and Germany/30000 and a
\* student with budget 20000 who prefers Canada, the filter of
\* chat_with_student returns exactly the list of the Canada program.
C17_CanadaOnly ==
    \A r \in Reqs :
        Filtered(r) /\ programs = CanadaGermany /\ C17_CanadaStudent(students[1])
            => /\ filt[r].capped = <<CanadaGermany[1]>>
               /\ payload[r].programs = <<CanadaGermany[1]>>

C17_Witness ==
    /\ Filtered(1) /\ programs = CanadaGermany /\ C17_CanadaStudent(students[1])
    /\ students[1].budget_range = <<"2", "0", "0", "0", "0">>
    /\ filt[1].fetched = CanadaGermany
    /\ filt[1].capped = <<CanadaGermany[1]>>

\* C18: in every reachable state GET / and GET /health can be answered, with
\* any token or none; the answer is 200 with the welcome message, respectively
\* with status "ok", and answering leaves the store, the requests under way and
\* the gateway calls as they were.
C18_ProbesAlwaysOk ==
    /\ [](\A token \in Tokens : ENABLED ReadRoot(token) /\ ENABLED HealthCheck(token))
    /\ [](probeReply # NoProbeReply =>
             /\ probeReply.status = 200
             /\ probeReply.op = "read_root" => probeReply.message = WelcomeMessage
             /\ probeReply.op = "health_check" => probeReply.health = "ok")
    /\ [][probeReply' # probeReply =>
             /\ probeReply'.op \in {"read_root", "health_check"}
             /\ UNCHANGED <<students, programs, reqVars>>]_vars

C18_Witness ==
    /\ probeReply.op = "health_check"
    /\ probeReply.status = 200
    /\ \E r \in Reqs : gwFailed[r] /\ ~Done(r)
    /\ \E r \in Reqs : pc[r] = "chat"

\* the programs of a list whose location contains, or is contained in, a
\* requested location, both lower-cased
C19_SubstringKept(pl, table) ==
    LET requested == C3_ChatRequested(pl)
        Keep(p) == \E l \in requested :
                       \/ Contains(Lower(l), Lower(p.location))
                       \/ Contains(Lower(p.location), Lower(l))
    IN  SelectSeq(table, Keep)

\* C19: with non-empty preferred locations, the location stage keeps a
\* program iff its location contains or is contained in a requested location,
\* compared case-insensitively (all programs when none is kept).
C19_LocationSubstring ==
    LET pl == students[1].preferred_location
        kept == C19_SubstringKept(pl, programs)
    IN  /\ \A r \in Reqs :
              Filtered(r) /\ Truthy(pl)
                  => filt[r].location = (IF kept = <<>> THEN programs ELSE kept)
        /\ recs # NoRecs /\ pl.t = "list" /\ Truthy(pl)
              => recs.location = (IF kept = <<>> THEN programs ELSE kept)

\* the programs of a list with numeric fees between lo and hi
C20_Within(table, lo, hi) ==
    LET Keep(p) == p.fees.t = "int" /\ lo <= p.fees.v /\ p.fees.v <= hi
    IN  SelectSeq(table, Keep)

\* the programs of a list with numeric fees of at most hi
C20_AtMost(table, hi) ==
    LET Keep(p) == p.fees.t = "int" /\ p.fees.v <= hi
    IN  SelectSeq(table, Keep)

\* C20 as stated: with a budget, the budget stage keeps exactly the programs
\* of the previous stage's output whose cost is at most the budget, with no
\* lower bound, and passes its input through when there is none.
C20_BudgetUpperOnly ==
    \A r \in Reqs :
        LET b == ParseBudget(students[1].budget_range)
            kept == C20_AtMost(filt[r].field, b.max)
        IN  Filtered(r) /\ IsStr(students[1].budget_range) /\ b.ok
                => filt[r].budget = (IF kept = <<>> THEN filt[r].field ELSE kept)

\* C20, amended: with a budget_range of the form "min-max", the budget stage
\* keeps exactly the programs of the previous stage's output whose fees are a
\* number between min and max inclusive, and passes its input through when
\* there is none; a budget_range that is absent or not of that form leaves the
\* list as it is.
C20_BudgetRange ==
    \A r \in Reqs :
        LET b == ParseBudget(students[1].budget_range)
            kept == C20_Within(filt[r].field, b.min, b.max)
        IN  Filtered(r) =>
                IF IsStr(students[1].budget_range) /\ b.ok
                THEN filt[r].budget = (IF kept = <<>> THEN filt[r].field ELSE kept)
                ELSE filt[r].budget = filt[r].field

C20_Witness ==
    LET b == ParseBudget(students[1].budget_range)
    IN  /\ Filtered(1) /\ IsStr(students[1].budget_range) /\ b.ok
        /\ \E i \in DOMAIN filt[1].field :
              filt[1].field[i].fees.t = "int" /\ filt[1].field[i].fees.v < b.min
        /\ filt[1].budget # <<>>
        /\ Len(filt[1].budget) < Len(filt[1].field)
        /\ \A i \in DOMAIN filt[1].budget : filt[1].budget[i].fees.v >= b.min

\* the programs of a list whose title contains the field, both lower-cased
C21_TitleKept(field, table) ==
    LET Keep(p) == Contains(Lower(field), Lower(p.program_title))
    IN  SelectSeq(table, Keep)

\* C21: with a field of study, the field stage keeps exactly the programs of
\* the location stage's output whose title contains the field
\* case-insensitively, and passes that output through when no title matches;
\* its result is a subsequence of its input and empty only if the input is.
C21_FieldStage ==
    \A r \in Reqs :
        LET field == students[1].field_of_study
            kept == C21_TitleKept(field, filt[r].location)
        IN  Filtered(r) =>
                /\ IsStr(field) /\ field # <<>> =>
                      filt[r].field = (IF kept = <<>> THEN filt[r].location ELSE kept)
                /\ IsSubsequence(filt[r].field, filt[r].location)
                /\ filt[r].location # <<>> => filt[r].field # <<>>

C21_Witness ==
    /\ Filtered(1)
    /\ students[1].field_of_study = <<"A">>
    /\ \E i \in DOMAIN filt[1].location : filt[1].location[i].program_title = <<"d", "A">>
    /\ filt[1].field # <<>>
    /\ Len(filt[1].field) < Len(filt[1].location)

\* a list cut to its first 50 elements
C22_FirstFifty(list) == IF Len(list) > 50 THEN SubSeq(list, 1, 50) ELSE list

\* C22: the program list handed to the prompt has at most 50 elements: the
\* filtered list's first 50 in their order when it has more, the filtered list
\* itself otherwise, in chat_with_student and in
\* generate_course_recommendations.
C22_CapFifty ==
    /\ \A r \in Reqs :
          Filtered(r) =>
              /\ Len(payload[r].programs) <= 50
              /\ payload[r].programs = C22_FirstFifty(filt[r].budget)
    /\ recs # NoRecs =>
          /\ Len(recs.capped) <= 50
          /\ recs.capped = C22_FirstFifty(recs.location)

C22_Witness ==
    /\ Filtered(1) /\ recs # NoRecs
    /\ Len(filt[1].budget) > 50 /\ Len(recs.location) > 50
    /\ Len(payload[1].programs) = 50 /\ Len(recs.capped) = 50
    /\ payload[1].programs[50] = filt[1].budget[50]

\* C23: a failure of the store while the user turn is persisted leaves the
\* request running: the step out of the user turn's append never ends the
\* request and never sets a server error.
C23_UserTurnNonFatal ==
    [][\A r \in Reqs :
          pc[r] \in {"user_read", "user_write"} =>
              /\ pc'[r] # "done"
              /\ outcome'[r].kind # "ServerError"]_vars

\* the turns request r has written so far are a prefix of its user turn
\* followed by one assistant or system turn, and its gateway call comes after
\* its user turn was written
C24_WithinRequest ==
    \A r \in Reqs :
        /\ Len(writes[r]) <= 2
        /\ Len(writes[r]) >= 1 =>
              writes[r][1].role = "user" /\ writes[r][1].content \in Texts(r)
        /\ Len(writes[r]) = 2 => writes[r][2].role \in {"assistant", "system"}
        /\ calls[r] = 1 => Len(writes[r]) >= 1

\* an assistant turn of request r in a stored log has r's user turn before it
C24_UserTurnPrecedes ==
    \A s \in StudentIds : \A r \in Reqs :
        LET log == students[s].messages
        IN  \A i \in DOMAIN log :
                log[i].role = "assistant" /\ log[i].content \in Completions(r)
                    => \E j \in 1..(i - 1) :
                           log[j].role = "user" /\ log[j].content \in Texts(r)

\* C24: a request persists its user turn before it calls the gateway; in every
\* state the turns it has added are a prefix of [user turn, one assistant or
\* system turn]; and its assistant turn is never in the log without its user
\* turn before it.
C24_UserTurnFirst == C24_WithinRequest /\ C24_UserTurnPrecedes

\* C25: student creation, read and profile update never add, change or set
\* turns of a student's conversation log, whatever the request body holds.
C25_ProfileOpsKeepLog ==
    [][\A s \in ProfileIds : students'[s].messages = students[s].messages]_vars

\* C26: no step of a conversation request writes the programs table, however
\* the request ends; a step that changes the table is a program-management
\* request answered with success, and it changes no conversation request.
C26_ChatReadsPrograms ==
    /\ [][(\E r \in Reqs : pc'[r] # pc[r]) => programs' = programs]_vars
    /\ [][programs' # programs =>
             /\ adminReply'.op \in {"create_program", "update_program", "delete_program"}
             /\ adminReply'.status \in {201, 200, 204}
             /\ UNCHANGED reqVars]_vars

C26_Witness ==
    /\ programs # Catalog
    /\ \E r \in Reqs :
          Done(r) /\ outcome[r].kind = "Success" /\ Len(writes[r]) = 2
    /\ \E r \in Reqs : Done(r) /\ outcome[r].kind = "Degraded"

\* the last n elements of a list
C27_Last(list, n) ==
    IF Len(list) > n THEN SubSeq(list, Len(list) - n + 1, Len(list)) ELSE list

\* C27: the turns rendered into the prompt are at most the 10 most recent of
\* the log handed to GroqService.chat_with_student, and at most the 3 most
\* recent in OpenAIAgentService.chat_with_student, in their order.
C27_RecentTurnsBounded ==
    \A run \in runs :
        /\ run.service = "groq" =>
              /\ Len(run.payload.history) <= 10
              /\ run.payload.history = C27_Last(run.turns, 10)
        /\ run.service = "agent" => Len(run.payload.history) <= 3

\* the agent's part alone
C27_AgentBounded ==
    \A run \in runs : run.service = "agent" => Len(run.payload.history) <= 3

\* the roles of a list of turns are user, assistant or system
C28_RolesClosed(turns) ==
    \A i \in DOMAIN turns : turns[i].role \in {"user", "assistant", "system"}

\* C28: in every state every turn of a stored conversation log and of the
\* services' in-process history has the role user, assistant or system.
C28_RoleEnumeration ==
    /\ \A s \in DOMAIN students : C28_RolesClosed(students[s].messages)
    /\ \A s \in DOMAIN conversation_histories : C28_RolesClosed(conversation_histories[s])

\* the stored logs alone
C28_StoredRoles ==
    \A s \in DOMAIN students : C28_RolesClosed(students[s].messages)

\* C29: an update request, with a delete request for the same program under
\* way or not, ends with 404 or with 200 and the updated program; never with
\* a server error or a success without the program.
C29_UpdateDeleteRace ==
    LET req == progReq["update"]
    IN  req.pc = "done" =>
            \/ req.status = 404
            \/ req.status = 200 /\ req.returned = "row"

\* the update requests that ran with no delete between their check and their
\* write end so
C29_UpdateAlone ==
    [][progReq["update"].pc = "checked" /\ progReq'["update"].pc = "done"
          /\ ProgramIndex(progReq["update"].id) # 0
          => progReq'["update"].status = 200 /\ progReq'["update"].returned = "row"]_vars

\* the entries of the ids other than a are left as they were
C30_OthersKept(a) ==
    \A b \in AgentIds \ {a} : conversation_histories'[b] = conversation_histories[b]

\* C30: a step of an agent chat call for student id A leaves the cached
\* history of every other id as it was and only extends A's at its end: by
\* the inbound message when the call starts, by the assistant reply when its
\* run returns, and by nothing when its run raises, so that a failed run
\* leaves the message cached with no reply and no earlier turn is touched.
C30_CacheFrame ==
    [][\A a \in AgentIds :
          LET old == conversation_histories[a]
              new == conversation_histories'[a]
          IN  /\ awaiting'[a].pending = awaiting[a].pending + 1 =>
                    /\ \E message \in PromptMessages :
                          new = Append(old, Turn("student", message))
                    /\ C30_OthersKept(a)
              /\ awaiting'[a].returned = awaiting[a].returned + 1 =>
                    /\ \E output \in AgentOutputs :
                          new = Append(old, Turn("assistant", output))
                    /\ C30_OthersKept(a)
              /\ awaiting'[a].raised = awaiting[a].raised + 1 =>
                    /\ new = old
                    /\ C30_OthersKept(a)
              /\ awaiting' = awaiting => new = old]_vars

\* a failed run has left the inbound message of student 1 cached with no
\* reply, after an answered one, while student 2 has a call under way
C30_Witness ==
    /\ Len(conversation_histories[1]) = 3
    /\ conversation_histories[1][2].role = "assistant"
    /\ conversation_histories[1][3].role = "student"
    /\ awaiting[1] = [pending |-> 0, returned |-> 1, raised |-> 1]
    /\ awaiting[2].pending = 1 /\ Len(conversation_histories[2]) = 1

=============================================================================
